---- MODULE Spec2Model ----
(***************************************************************************)
(* Model of the in-memory event store (src/src/storage.ts): the ring       *)
(* buffer of one-second buckets with its current-second pointer, the       *)
(* duplicate set, event validation, the sliding-window advance, the        *)
(* lookback query, the user reference table, and the controllers for       *)
(* batch ingestion, reference updates and metrics.                         *)
(*                                                                         *)
(* The three tunables of src/src/utils.ts are scaled down so that the      *)
(* ring is small enough to enumerate: the source has LATENESS_SEC = 120,   *)
(* MAX_CLOCK_SKEW_SEC = 120 and MAX_RETENTION_SEC = 1800.  The scaling     *)
(* keeps the order relation of the source,                                 *)
(*     LATENESS_SEC + MAX_CLOCK_SKEW_SEC < MAX_RETENTION_SEC.              *)
(* The default metrics window (300 in storage.ts) is scaled with them and  *)
(* stays below MAX_RETENTION_SEC.                                          *)
(***************************************************************************)
EXTENDS Integers, Sequences, FiniteSets, TLC

VARIABLES
    ringBuffer,     \* InMemoryStore.ringBuffer : slot index -> Bucket
    currentSec,     \* InMemoryStore.currentSec (0 doubles as "unset")
    seenEventIds,   \* InMemoryStore.seenEventIds
    userReferenceTable,             \* InMemoryStore.userReferenceTable
    userReferenceTableTimestamp,    \* InMemoryStore.userReferenceTableTimestamp
    userReferenceTableUpdateCount,  \* InMemoryStore.userReferenceTableUpdateCount
    validated,      \* history: ids of the events that passed validateEvent
    admitted,       \* history: ids whose Ingest outcome was 'success'
    everSet,        \* history: currentSec has held a value other than 0
    acceptedUpdates,    \* history: the userMetadata of the latest two accepted updates
    answer,             \* history: what the latest 200 response of getMetrics
                        \* scanned and how it grouped it
    last,           \* history: the operation just performed and its outcome
    clock           \* history: the latest reading of the server clock by a
                    \* request (0 before the first)

refVars ==
    <<userReferenceTable, userReferenceTableTimestamp,
      userReferenceTableUpdateCount, acceptedUpdates>>

vars == <<ringBuffer, currentSec, seenEventIds, validated, admitted, everSet,
          last, refVars, answer, clock>>

---------------------------------------------------------------------------
(* Program constants (scaled, see the header).                             *)

LATENESS_SEC == 1
MAX_CLOCK_SKEW_SEC == 1
MAX_RETENTION_SEC == 3
DEFAULT_WINDOW_SEC == 2     \* 300 in the source: below MAX_RETENTION_SEC

(* Bounds of the model.                                                    *)

MaxSec == 4         \* largest epoch second an input may carry
MaxStored == 2      \* most events held in the ring at once
MaxBatch == 2       \* longest Ingest batch
MaxUpdates == 3     \* most accepted reference table updates

Seconds == -1 .. MaxSec
Slots == 0 .. (MAX_RETENTION_SEC - 1)
Windows == 0 .. (MAX_RETENTION_SEC + 1)

---------------------------------------------------------------------------
(* Values.                                                                 *)

\* An ISO timestamp string is kept as the millisecond instant it denotes;
\* "bad" is a string Date cannot parse, "empty" the empty/missing string.
IsoTs(ms) == [fmt |-> "iso", ms |-> ms]
BadTs == [fmt |-> "bad", ms |-> 0]
EmptyTs == [fmt |-> "empty", ms |-> 0]

\* A request element: kind is "object" for a JSON object, else "null",
\* "array" or "primitive".  A field that is missing or empty is "".
Ev(id, user, type, ts) ==
    [kind |-> "object", event_id |-> id, user_id |-> user, type |-> type, ts |-> ts]
NonObject(k) ==
    [kind |-> k, event_id |-> "", user_id |-> "", type |-> "", ts |-> EmptyTs]

EmptyBucket == [sec |-> 0, events |-> <<>>]

\* utils.ts isObject
isObject(value) == value.kind = "object"

\* utils.ts parseTimestamp: Math.floor(getTime() / 1000), throws on NaN
parseTimestamp(ts) ==
    IF ts.fmt = "iso"
    THEN [ok |-> TRUE, sec |-> ts.ms \div 1000]
    ELSE [ok |-> FALSE, sec |-> 0]

\* JavaScript's % : the remainder takes the sign of the dividend
JsRem(a, n) == IF a >= 0 THEN a % n ELSE 0 - ((0 - a) % n)

Abs(x) == IF x >= 0 THEN x ELSE 0 - x
Min(a, b) == IF a <= b THEN a ELSE b

---------------------------------------------------------------------------
(* InMemoryStore.validateEvent                                             *)

\* line 44: a required field is missing or empty
MissingFields(event) ==
    \/ event.event_id = "" \/ event.user_id = ""
    \/ event.type = "" \/ event.ts.fmt = "empty"

\* (mutant) the skew comparison made inclusive
SkewExceeded_Inclusive(eventTs, now) == (eventTs - now) >= MAX_CLOCK_SKEW_SEC

\* line 56
SkewExceeded(eventTs, now) == (eventTs - now) > MAX_CLOCK_SKEW_SEC

\* line 59
LatenessExceeded(eventTs, now) == eventTs < now - LATENESS_SEC

\* (mutant) the set is rebuilt around the new id
MarkSeen_Forgets(seen, id) == {id}

\* line 64
MarkSeen(seen, id) == seen \cup {id}

\* (mutant) the id is marked seen before the timestamp checks
validateEvent_MarksEarly(seen, event, now) ==
    IF ~isObject(event) \/ MissingFields(event)
    THEN [err |-> "MalformedEvent", seen |-> seen]
    ELSE IF event.event_id \in seen
    THEN [err |-> "DuplicateEvent", seen |-> seen]
    ELSE LET p == parseTimestamp(event.ts)
             marked == MarkSeen(seen, event.event_id) IN
         IF ~p.ok
         THEN [err |-> "InvalidTimestamp", seen |-> marked]
         ELSE IF SkewExceeded(p.sec, now)
         THEN [err |-> "ClockSkewExceeded", seen |-> marked]
         ELSE IF LatenessExceeded(p.sec, now)
         THEN [err |-> "LatenessExceeded", seen |-> marked]
         ELSE [err |-> "none", seen |-> marked]

\* (mutant) the duplicate check comes before the check of the fields
validateEvent_DuplicateFirst(seen, event, now) ==
    IF ~isObject(event)
    THEN [err |-> "MalformedEvent", seen |-> seen]
    ELSE IF event.event_id \in seen
    THEN [err |-> "DuplicateEvent", seen |-> seen]
    ELSE IF MissingFields(event)
    THEN [err |-> "MalformedEvent", seen |-> seen]
    ELSE LET p == parseTimestamp(event.ts) IN
         IF ~p.ok
         THEN [err |-> "InvalidTimestamp", seen |-> seen]
         ELSE IF SkewExceeded(p.sec, now)
         THEN [err |-> "ClockSkewExceeded", seen |-> seen]
         ELSE IF LatenessExceeded(p.sec, now)
         THEN [err |-> "LatenessExceeded", seen |-> seen]
         ELSE [err |-> "none", seen |-> MarkSeen(seen, event.event_id)]

validateEvent(seen, event, now) ==
    IF ~isObject(event)
    THEN [err |-> "MalformedEvent", seen |-> seen]
    ELSE IF MissingFields(event)
    THEN [err |-> "MalformedEvent", seen |-> seen]
    ELSE IF event.event_id \in seen
    THEN [err |-> "DuplicateEvent", seen |-> seen]
    ELSE LET p == parseTimestamp(event.ts) IN
         IF ~p.ok
         THEN [err |-> "InvalidTimestamp", seen |-> seen]
         ELSE IF SkewExceeded(p.sec, now)
         THEN [err |-> "ClockSkewExceeded", seen |-> seen]
         ELSE IF LatenessExceeded(p.sec, now)
         THEN [err |-> "LatenessExceeded", seen |-> seen]
         ELSE [err |-> "none", seen |-> MarkSeen(seen, event.event_id)]

---------------------------------------------------------------------------
(* InMemoryStore.advanceSlidingWindow                                      *)

\* lines 181-184: the seconds the clearing loop runs over when going from
\* cur to advanceTo
ClearRange(cur, advanceTo) ==
    LET clearStart == cur + 1
        clearEnd == Min(advanceTo, clearStart + MAX_RETENTION_SEC)
    IN  clearStart .. clearEnd

\* (mutant) the loop starts at the pointer's own second
ClearedSlots_FromPointer(cur, advanceTo) ==
    LET clearStart == cur
        clearEnd == Min(advanceTo, clearStart + MAX_RETENTION_SEC)
    IN  { JsRem(sec, MAX_RETENTION_SEC) : sec \in clearStart .. clearEnd }

\* lines 185-189: the indices the loop assigns a fresh bucket to.  The
\* index of a negative second is negative: the assignment then adds a
\* property to the array and no slot is reset
ClearedSlots(cur, advanceTo) ==
    { JsRem(sec, MAX_RETENTION_SEC) : sec \in ClearRange(cur, advanceTo) }

\* (mutant) a target equal to the pointer is refused as well
IsBackward_Inclusive(advanceTo, cur) == advanceTo <= cur

\* line 171
IsBackward(advanceTo, cur) == advanceTo < cur

advanceSlidingWindow(ring, cur, advanceTo) ==
    IF cur = 0
    THEN [err |-> "none", ring |-> ring, cur |-> advanceTo]
    ELSE IF IsBackward(advanceTo, cur)
    THEN [err |-> "BackwardAdvance", ring |-> ring, cur |-> cur]
    ELSE IF advanceTo = cur
    THEN [err |-> "none", ring |-> ring, cur |-> cur]
    ELSE [err |-> "none",
          ring |-> [i \in Slots |->
                      IF i \in ClearedSlots(cur, advanceTo)
                      THEN EmptyBucket ELSE ring[i]],
          cur |-> advanceTo]

---------------------------------------------------------------------------
(* InMemoryStore.updateRingBuffer                                          *)

\* (mutant) the comparison made inclusive
RetentionExceeded_Inclusive(eventSec, cur) ==
    Abs(eventSec - cur) >= MAX_RETENTION_SEC

\* (mutant) a bucket of another second is retagged with its events kept
PlaceEvent_NeverResets(ring, index, eventSec, event) ==
    [ring EXCEPT ![index] = [sec |-> eventSec,
                             events |-> Append(ring[index].events, event)]]

\* (mutant) the event is put at the head of the bucket
PlaceEvent_Prepends(ring, index, eventSec, event) ==
    LET bucket == ring[index]
        fresh == IF bucket.sec # eventSec
                 THEN [sec |-> eventSec, events |-> <<>>]
                 ELSE bucket
    IN  [ring EXCEPT ![index] = [fresh EXCEPT !.events = <<event>> \o @]]

\* (mutant) the reset forgets to retag the bucket
PlaceEvent_KeepsTag(ring, index, eventSec, event) ==
    LET bucket == ring[index]
        fresh == IF bucket.sec # eventSec
                 THEN [sec |-> bucket.sec, events |-> <<>>]
                 ELSE bucket
    IN  [ring EXCEPT ![index] = [fresh EXCEPT !.events = Append(@, event)]]

\* lines 146-153: reset a bucket of another second, then push
PlaceEvent(ring, index, eventSec, event) ==
    LET bucket == ring[index]
        fresh == IF bucket.sec # eventSec
                 THEN [sec |-> eventSec, events |-> <<>>]
                 ELSE bucket
    IN  [ring EXCEPT ![index] = [fresh EXCEPT !.events = Append(@, event)]]

\* line 133: the retention check
RetentionExceeded(eventSec, cur) == Abs(eventSec - cur) > MAX_RETENTION_SEC

\* (mutant) the pointer is left as it is found
InitialisePointer_Keeps(cur, eventSec) == cur

\* lines 125-127: initialize on first event
InitialisePointer(cur, eventSec) == IF cur = 0 THEN eventSec ELSE cur

\* (mutant) the window is advanced on every insert
ShouldAdvance_Always(now, cur) == TRUE

\* line 129
ShouldAdvance(now, cur) == now > cur

\* (mutant) the slot of the second after the event's
BucketIndex_NextSecond(eventSec) == JsRem(eventSec + 1, MAX_RETENTION_SEC)

\* line 138: the slot of a second
BucketIndex(eventSec) == JsRem(eventSec, MAX_RETENTION_SEC)

updateRingBuffer(ring, cur, event, now) ==
    LET p == parseTimestamp(event.ts) IN
    IF ~p.ok
    THEN [err |-> "InvalidTimestamp", ring |-> ring, cur |-> cur]
    ELSE
    LET eventSec == p.sec
        cur1 == InitialisePointer(cur, eventSec)
        adv == IF ShouldAdvance(now, cur1)
               THEN advanceSlidingWindow(ring, cur1, now)
               ELSE [err |-> "none", ring |-> ring, cur |-> cur1]
        index == BucketIndex(eventSec)
    IN  IF adv.err # "none"
        THEN [err |-> adv.err, ring |-> adv.ring, cur |-> adv.cur]
        ELSE IF RetentionExceeded(eventSec, adv.cur)
        THEN [err |-> "RetentionExceeded", ring |-> adv.ring, cur |-> adv.cur]
        ELSE IF index \notin Slots
        THEN [err |-> "BucketUndefined", ring |-> adv.ring, cur |-> adv.cur]
        ELSE [err |-> "none",
              ring |-> PlaceEvent(adv.ring, index, eventSec, event),
              cur |-> adv.cur]

---------------------------------------------------------------------------
(* InMemoryStore.getLookbackWindow                                         *)

\* (mutant) the tag of the slot is not compared with the second
LookupSecond_AnyTag(ring, sec) ==
    LET index == JsRem(sec, MAX_RETENTION_SEC) IN
    IF index \in Slots THEN <<ring[index]>> ELSE <<>>

\* lines 216-221: the bucket the loop pushes for one second, if any
LookupSecond(ring, sec) ==
    LET index == JsRem(sec, MAX_RETENTION_SEC) IN
    IF index \in Slots /\ ring[index].sec = sec
    THEN <<ring[index]>>
    ELSE <<>>

RECURSIVE CollectBuckets(_, _, _)
CollectBuckets(ring, sec, windowEnd) ==
    IF sec > windowEnd
    THEN <<>>
    ELSE LookupSecond(ring, sec) \o CollectBuckets(ring, sec + 1, windowEnd)

\* (mutant) the window reaches one second further back
WindowStart_OneEarlier(windowSec, queryEndSec) == queryEndSec - windowSec

\* line 210
WindowStart(windowSec, queryEndSec) == queryEndSec - windowSec + 1

\* (mutant) a window of exactly the capacity is refused as well
WindowTooLarge_Inclusive(windowSec) == windowSec >= MAX_RETENTION_SEC

\* line 203
WindowTooLarge(windowSec) == windowSec > MAX_RETENTION_SEC

getLookbackWindow(ring, windowSec, queryEndSec) ==
    IF WindowTooLarge(windowSec)
    THEN [err |-> "WindowTooLarge", buckets |-> <<>>]
    ELSE [err |-> "none",
          buckets |-> CollectBuckets(ring, WindowStart(windowSec, queryEndSec),
                                     queryEndSec)]

---------------------------------------------------------------------------
(* InMemoryStore.updateReferenceTable, getReferenceTable, enrichEvent      *)

\* types.ts UserMetadata / UserReferenceTable: user id -> [plan, region]
Attr(plan, region) == [plan |-> plan, region |-> region]
EmptyTable == [u \in {} |-> Attr("free", "us")]

\* Object.entries: the <<key, value>> pairs of a record
ObjectEntries(userMetadata) ==
    { <<u, userMetadata[u]>> : u \in DOMAIN userMetadata }

\* new Map(entries)
NewMap(entries) ==
    [u \in { e[1] : e \in entries } |-> (CHOOSE e \in entries : e[1] = u)[2]]

\* (mutant) the entries are merged into the table
ReplaceTable_Merges(table, userMetadata) ==
    [u \in DOMAIN table \cup DOMAIN userMetadata |->
        IF u \in DOMAIN userMetadata THEN userMetadata[u] ELSE table[u]]

\* line 104
ReplaceTable(table, userMetadata) == NewMap(ObjectEntries(userMetadata))

\* (mutant) a tie is stale as well
IsStale_Inclusive(updateTs, storedTs) == updateTs <= storedTs

\* line 98
IsStale(updateTs, storedTs) == updateTs < storedTs

\* ref = [table, ts, count]
updateReferenceTable(ref, userMetadata, timestamp) ==
    LET p == parseTimestamp(timestamp) IN
    IF ~p.ok
    THEN [err |-> "InvalidTimestamp", ref |-> ref]
    ELSE IF IsStale(p.sec, ref.ts)
    THEN [err |-> "StaleUpdate", ref |-> ref]
    ELSE [err |-> "none",
          ref |-> [table |-> ReplaceTable(ref.table, userMetadata),
                   ts |-> p.sec,
                   count |-> ref.count + 1]]

\* (mutant) the table of a fresh store is handed out
getReferenceTable_Initial(table) == EmptyTable

getReferenceTable(table) == table

\* the result carries the attributes (hasMetadata) or is the event itself
enrichEvent(event, tableSnapshot) ==
    IF event.user_id \in DOMAIN tableSnapshot
    THEN [event |-> event, hasMetadata |-> TRUE,
          plan |-> tableSnapshot[event.user_id].plan,
          region |-> tableSnapshot[event.user_id].region]
    ELSE [event |-> event, hasMetadata |-> FALSE, plan |-> "", region |-> ""]

\* the optional second argument of enrichEvent: a table, or omitted
TableArg(given, table) == [given |-> given, table |-> table]

\* (mutant) the table of the store is taken whatever the argument
TableSnapshot_StoreTable(userReferenceTableArg, storeTable) == storeTable

\* line 74: userReferenceTable ?? this.userReferenceTable
TableSnapshot(userReferenceTableArg, storeTable) ==
    IF userReferenceTableArg.given THEN userReferenceTableArg.table ELSE storeTable

---------------------------------------------------------------------------
(* Controllers.updateReference                                             *)

\* a request body: metaKind is "object" for a JSON object in user_metadata,
\* else "missing" or "primitive"; ts is EmptyTs when absent or empty
RefBody(metaKind, userMetadata, ts) ==
    [metaKind |-> metaKind, user_metadata |-> userMetadata, ts |-> ts]

\* lines 273-295
updateReference(ref, body) ==
    IF body.metaKind # "object" \/ body.ts.fmt = "empty"
    THEN [status |-> 400, err |-> "BadRequest", ref |-> ref]
    ELSE LET r == updateReferenceTable(ref, body.user_metadata, body.ts) IN
         IF r.err # "none"
         THEN [status |-> 409, err |-> r.err, ref |-> r.ref]
         ELSE [status |-> 200, err |-> "none", ref |-> r.ref]

---------------------------------------------------------------------------
(* Controllers.ingestEvents                                                *)

\* utils.ts normalizeToArray: a request body is "array", "object" (one
\* event, kept as a one-element items), or a value that is neither
normalizeToArray(body) ==
    IF body.kind \in {"object", "array"}
    THEN [ok |-> TRUE, items |-> body.items]
    ELSE [ok |-> FALSE, items |-> <<>>]

\* line 263: event.event_id ?? 'event_unknown' ("" stands for an absent id)
OutcomeId(event) == IF event.event_id = "" THEN "event_unknown" ELSE event.event_id

\* lines 261-267: the catch block reads event.event_id, which itself throws
\* when the element is null
CatchThrows(event) == event.kind = "null"

\* lines 253-268: the map callback on one element.  st = [ring, cur, seen]
ProcessEvent(st, event, now) ==
    LET v == validateEvent(st.seen, event, now) IN
    IF v.err # "none"
    THEN [st |-> st, thrown |-> CatchThrows(event), passed |-> FALSE,
          result |-> [event_id |-> OutcomeId(event), status |-> "error",
                      message |-> v.err]]
    ELSE LET i == updateRingBuffer(st.ring, st.cur, event, now)
             st2 == [ring |-> i.ring, cur |-> i.cur, seen |-> v.seen]
         IN  IF i.err # "none"
             THEN [st |-> st2, thrown |-> FALSE, passed |-> TRUE,
                   result |-> [event_id |-> OutcomeId(event), status |-> "error",
                               message |-> i.err]]
             ELSE [st |-> st2, thrown |-> FALSE, passed |-> TRUE,
                   result |-> [event_id |-> event.event_id, status |-> "success",
                               message |-> "none"]]

\* Array.prototype.map over the batch; an exception escaping the callback
\* ends the loop with the store as the earlier elements left it.  passed
\* collects the ids that passed validateEvent.
RECURSIVE MapEvents(_, _, _, _, _)
MapEvents(st, items, now, results, passed) ==
    IF items = <<>>
    THEN [st |-> st, thrown |-> FALSE, results |-> results, passed |-> passed]
    ELSE LET r == ProcessEvent(st, Head(items), now) IN
         IF r.thrown
         THEN [st |-> r.st, thrown |-> TRUE, results |-> results, passed |-> passed]
         ELSE MapEvents(r.st, Tail(items), now, Append(results, r.result),
                        IF r.passed THEN passed \cup {Head(items).event_id}
                        ELSE passed)

\* lines 234-271, with withErrorHandling (lines 369-380) around it.  done
\* holds the outcome records built, also when the response is the 500.
ingestEvents(st, body, now) ==
    IF body.kind = "missing"
    THEN [st |-> st, status |-> 400, results |-> <<>>, done |-> <<>>, passed |-> {}]
    ELSE LET n == normalizeToArray(body) IN
         IF ~n.ok
         THEN [st |-> st, status |-> 400, results |-> <<>>, done |-> <<>>,
               passed |-> {}]
         ELSE LET m == MapEvents(st, n.items, now, <<>>, {}) IN
              IF m.thrown
              THEN [st |-> m.st, status |-> 500, results |-> <<>>,
                    done |-> m.results, passed |-> m.passed]
              ELSE [st |-> m.st, status |-> 200, results |-> m.results,
                    done |-> m.results, passed |-> m.passed]

\* ids of the 'success' outcome records
SuccessIds(results) ==
    { results[k].event_id : k \in { j \in 1 .. Len(results) : results[j].status = "success" } }

---------------------------------------------------------------------------
(* Controllers.getMetrics                                                  *)

Plans == {"free", "pro"}
Regions == {"us", "eu"}

\* the query parameter window: absent, a string parseInt reads as n, or a
\* string parseInt reads as NaN
WindowParam(kind, n) == [kind |-> kind, n |-> n]

\* line 299: window ? parseInt(window) : 300
parseWindow(window) ==
    IF window.kind = "missing" THEN [nan |-> FALSE, n |-> DEFAULT_WINDOW_SEC]
    ELSE IF window.kind = "nan" THEN [nan |-> TRUE, n |-> 0]
    ELSE [nan |-> FALSE, n |-> window.n]

\* a JavaScript number that is a quotient of two integers
Quotient(num, den) == [num |-> num, den |-> den]

\* lines 328-334
EmptyAggregation ==
    [totalEvents |-> 0, uniqueUsers |-> {}, unknown |-> {},
     byPlan |-> [p \in Plans |-> 0], byRegion |-> [r \in Regions |-> 0]]

\* (mutant) the unknown set is keyed by user
AddUnknown_ByUser(unknown, event) == unknown \cup {event.user_id}

\* line 348
AddUnknown(unknown, event) == unknown \cup {event.event_id}

\* lines 340-349: the body of the inner loop
AggregateEvent(agg, event, table) ==
    LET enrichedEvent == enrichEvent(event, table) IN
    IF enrichedEvent.hasMetadata
    THEN [agg EXCEPT !.byPlan[enrichedEvent.plan] = @ + 1,
                     !.byRegion[enrichedEvent.region] = @ + 1,
                     !.uniqueUsers = @ \cup {event.user_id}]
    ELSE [agg EXCEPT !.unknown = AddUnknown(@, event)]

RECURSIVE AggregateEvents(_, _, _)
AggregateEvents(agg, events, table) ==
    IF events = <<>> THEN agg
    ELSE AggregateEvents(AggregateEvent(agg, Head(events), table),
                         Tail(events), table)

\* lines 337-351: the outer loop
RECURSIVE AggregateBuckets(_, _, _)
AggregateBuckets(agg, buckets, table) ==
    IF buckets = <<>> THEN agg
    ELSE LET bucket == Head(buckets)
             counted == [agg EXCEPT !.totalEvents = @ + Len(bucket.events)]
         IN  AggregateBuckets(AggregateEvents(counted, bucket.events, table),
                              Tail(buckets), table)

\* the events of a sequence of buckets, in scan order
RECURSIVE Flatten(_)
Flatten(buckets) ==
    IF buckets = <<>> THEN <<>> ELSE Head(buckets).events \o Flatten(Tail(buckets))

\* the JSON of a response; scanned (the events the loops visited) is not
\* part of it
MetricsResponse(status, err, windowSec, eps, agg, message, scanned) ==
    [status |-> status, err |-> err, window_sec |-> windowSec,
     events_per_sec |-> eps,
     unique_users |-> Cardinality(agg.uniqueUsers),
     unknown |-> Cardinality(agg.unknown),
     by_plan |-> agg.byPlan, by_region |-> agg.byRegion,
     message |-> message, scanned |-> scanned]

\* lines 297-361, with withErrorHandling (lines 369-380) around it.
\* st = [ring, cur]; the result carries the response and the store after
getMetrics(st, table, window, now) ==
    LET w == parseWindow(window)
        windowSec == w.n
    IN
    IF w.nan \/ windowSec <= 0
    THEN [st |-> st,
          res |-> MetricsResponse(400, "InvalidWindow", 0, Quotient(0, 1),
                                  EmptyAggregation, FALSE, <<>>)]
    ELSE
    LET adv == advanceSlidingWindow(st.ring, st.cur, now)
        st1 == [ring |-> adv.ring, cur |-> adv.cur]
    IN
    IF adv.err # "none"
    THEN [st |-> st1,
          res |-> MetricsResponse(500, adv.err, 0, Quotient(0, 1),
                                  EmptyAggregation, FALSE, <<>>)]
    ELSE
    LET lookbackWindow == getLookbackWindow(adv.ring, windowSec, now)
        userReferenceTableSnapshot == getReferenceTable(table)
    IN
    IF lookbackWindow.err # "none"
    THEN [st |-> st1,
          res |-> MetricsResponse(500, lookbackWindow.err, 0, Quotient(0, 1),
                                  EmptyAggregation, FALSE, <<>>)]
    ELSE IF Len(lookbackWindow.buckets) = 0
    THEN [st |-> st1,
          res |-> MetricsResponse(200, "none", windowSec, Quotient(0, 1),
                                  EmptyAggregation, TRUE, <<>>)]
    ELSE LET aggregation == AggregateBuckets(EmptyAggregation,
                                             lookbackWindow.buckets,
                                             userReferenceTableSnapshot)
         IN  [st |-> st1,
              res |-> MetricsResponse(200, "none", windowSec,
                                      Quotient(aggregation.totalEvents, windowSec),
                                      aggregation, FALSE,
                                      Flatten(lookbackWindow.buckets))]

---------------------------------------------------------------------------
(* Inputs of the store-level operations.                                   *)

EventIds == {"e1", "e2"}

\* well-formed events: e1 on the second, e2 half a second into it
GoodEvents ==
    { Ev(id, "u1", "click", IsoTs(s * 1000 + (IF id = "e1" THEN 0 ELSE 500))) :
        id \in EventIds, s \in Seconds }

BadEvents ==
    { Ev("", "u1", "click", IsoTs(1000)),
      Ev("e1", "", "click", IsoTs(1000)),
      Ev("e1", "u1", "", IsoTs(1000)),
      Ev("e1", "u1", "click", EmptyTs),
      Ev("e1", "u1", "click", BadTs),
      NonObject("null"), NonObject("array"), NonObject("primitive") }

SecOf(event) == parseTimestamp(event.ts).sec

RECURSIVE CountFrom(_, _)
CountFrom(ring, i) ==
    IF i \notin Slots THEN 0 ELSE Len(ring[i].events) + CountFrom(ring, i + 1)

\* number of events held in the ring
StoredCount(ring) == CountFrom(ring, 0)

\* the reference seconds Validate is tried with: up to one second beyond
\* either bound; one value for an event rejected before its time is read
ValidateNows(event) ==
    IF isObject(event) /\ parseTimestamp(event.ts).ok
    THEN { now \in Seconds :
             /\ SecOf(event) - now <= MAX_CLOCK_SKEW_SEC + 1
             /\ now - SecOf(event) <= LATENESS_SEC + 1 }
    ELSE {0}

\* the elements Ingest is tried with at reference second now: e1 up to one
\* second beyond either bound, e2 on the reference second, and the bad ones
IngestElements(now) ==
    { e \in GoodEvents :
        /\ SecOf(e) - now <= MAX_CLOCK_SKEW_SEC + 1
        /\ now - SecOf(e) <= LATENESS_SEC + 1
        /\ e.event_id = "e2" => SecOf(e) = now }
    \cup { Ev("", "u1", "click", IsoTs(1000)),
           Ev("e1", "u1", "click", BadTs),
           NonObject("null"), NonObject("primitive") }

Batches(now) ==
    UNION { [1 .. n -> IngestElements(now)] : n \in 0 .. MaxBatch }

Bodies(now) ==
    { [kind |-> "array", items |-> b] : b \in Batches(now) }
    \cup { [kind |-> "object", items |-> <<e>>] :
             e \in { x \in IngestElements(now) : isObject(x) } }
    \cup { [kind |-> k, items |-> <<>>] : k \in {"missing", "primitive"} }

\* readings of the server clock (Date.now()): far enough from the epoch
\* that every second Validate accepts is positive, and up to a second past
\* the latest event second
ServerNows == (LATENESS_SEC + 1) .. (MaxSec + 1)

Store == [ring |-> ringBuffer, cur |-> currentSec, seen |-> seenEventIds]

\* inputs of the reference table operations
UserIds == {"u1", "u2"}

MetadataInputs ==
    { EmptyTable,
      [u \in {"u1"} |-> Attr("pro", "us")],
      [u \in {"u1"} |-> Attr("free", "eu")],
      [u \in {"u2"} |-> Attr("free", "eu")],
      [u \in UserIds |-> IF u = "u1" THEN Attr("pro", "us") ELSE Attr("free", "eu")] }

\* update timestamps: on every input second, half a second into second 1,
\* and one that does not parse
RefTimestamps ==
    { IsoTs(sec * 1000) : sec \in Seconds } \cup { IsoTs(1500), BadTs }

RefBodies ==
    { RefBody("object", m, ts) :
        m \in { x \in MetadataInputs : DOMAIN x \in {{}, UserIds} },
        ts \in RefTimestamps }
    \cup { RefBody("object", EmptyTable, EmptyTs),
           RefBody("missing", EmptyTable, IsoTs(1000)),
           RefBody("primitive", EmptyTable, IsoTs(1000)) }

\* the history of accepted updates after one more: the latest two
Accepted(history, userMetadata) ==
    IF history = <<>> THEN <<userMetadata>>
    ELSE <<history[Len(history)], userMetadata>>

\* inputs of the metrics scenarios: e1 of user u1 on the clock's second or
\* the one ahead, e2 of either user on the clock's second
MetricEvents(now) ==
    { Ev("e1", "u1", "click", IsoTs(sec * 1000)) : sec \in now .. (now + 1) }
    \cup { Ev("e2", u, "view", IsoTs(now * 1000 + 500)) : u \in UserIds }

\* readings of the server clock in the metrics scenarios
MetricNows == (MaxSec - 2) .. (MaxSec - 1)

MetricBodies(now) ==
    { [kind |-> "object", items |-> <<e>>] : e \in MetricEvents(now) }

MetricTables ==
    { [u \in {"u1"} |-> Attr("pro", "us")],
      [u \in {"u2"} |-> Attr("free", "eu")] }

WindowParams ==
    { WindowParam("number", n) : n \in Windows }
    \cup { WindowParam("missing", 0), WindowParam("nan", 0) }

\* inputs of enrichEvent: events of either user, and a snapshot argument
\* that is one of the tables, the empty table, or omitted
EnrichEvents == MetricEvents(MaxSec - 1)

EnrichTables == MetricTables \cup {EmptyTable}

EnrichArgs ==
    { TableArg(TRUE, t) : t \in EnrichTables } \cup { TableArg(FALSE, EmptyTable) }

\* the groupings of a response
Groupings(res) ==
    <<res.by_plan, res.by_region, res.unique_users, res.unknown>>

NoAnswer == [asked |-> FALSE, scanned |-> <<>>, groupings |-> <<>>]

Ref == [table |-> userReferenceTable, ts |-> userReferenceTableTimestamp,
        count |-> userReferenceTableUpdateCount]

\* history record: id and sec are those of the event a successful insert
\* placed, delta is (event second - reference second) of a validate call
\* or of a successful insert, and (target - previous pointer) of a
\* successful advance from a set pointer; of an enrichEvent call, id is
\* the user of the event and delta is 1 when attributes were attached;
\* from is the pointer an insert found, 0 for the other operations
Outcome(op, err, id, sec, delta) ==
    [op |-> op, err |-> err, id |-> id, sec |-> sec, delta |-> delta, from |-> 0]

---------------------------------------------------------------------------
(* State machine.                                                          *)

Init ==
    /\ ringBuffer = [i \in Slots |-> EmptyBucket]
    /\ currentSec = 0
    /\ seenEventIds = {}
    /\ validated = {}
    /\ admitted = {}
    /\ everSet = FALSE
    /\ userReferenceTable = EmptyTable
    /\ userReferenceTableTimestamp = 0
    /\ userReferenceTableUpdateCount = 0
    /\ acceptedUpdates = <<>>
    /\ answer = NoAnswer
    /\ last = Outcome("init", "none", "", 0, 0)
    /\ clock = 0

\* store.validateEvent(event, now)
Validate(event, now) ==
    \E r \in {validateEvent(seenEventIds, event, now)} :
    /\ seenEventIds' = r.seen
    /\ last' = Outcome("validate", r.err, "", 0,
                       IF parseTimestamp(event.ts).ok THEN SecOf(event) - now ELSE 0)
    /\ validated' = IF r.err = "none"
                    THEN validated \cup {event.event_id} ELSE validated
    /\ UNCHANGED <<ringBuffer, currentSec, admitted, everSet, refVars, answer, clock>>

\* store.updateRingBuffer(event, now)
Insert(event, now) ==
    /\ StoredCount(ringBuffer) < MaxStored
    /\ \E r \in {updateRingBuffer(ringBuffer, currentSec, event, now)} :
        /\ ringBuffer' = r.ring
        /\ currentSec' = r.cur
        /\ everSet' = (everSet \/ r.cur # 0)
        /\ last' = [ (IF r.err = "none"
                      THEN Outcome("insert", r.err, event.event_id, SecOf(event),
                                   SecOf(event) - now)
                      ELSE Outcome("insert", r.err, "", 0, 0))
                     EXCEPT !.from = currentSec ]
    /\ UNCHANGED <<seenEventIds, validated, admitted, refVars, answer, clock>>

\* store.advanceSlidingWindow(target)
Advance(target) ==
    \E r \in {advanceSlidingWindow(ringBuffer, currentSec, target)} :
    /\ ringBuffer' = r.ring
    /\ currentSec' = r.cur
    /\ everSet' = (everSet \/ r.cur # 0)
    /\ last' = Outcome("advance", r.err, "", 0,
                       IF currentSec # 0 /\ r.err = "none" THEN target - currentSec ELSE 0)
    /\ UNCHANGED <<seenEventIds, validated, admitted, refVars, answer, clock>>

\* store.getLookbackWindow(windowSec, queryEndSec): reads only
Lookback(windowSec, queryEndSec) ==
    \E r \in {getLookbackWindow(ringBuffer, windowSec, queryEndSec)} :
    /\ last' = Outcome("lookback", r.err, "", 0, 0)
    /\ UNCHANGED <<ringBuffer, currentSec, seenEventIds, validated, admitted,
                   everSet, refVars, answer, clock>>

\* POST /events with the server clock at now
Ingest(body, now) ==
    /\ StoredCount(ringBuffer) < MaxStored
    /\ \E r \in {ingestEvents(Store, body, now)} :
        /\ ringBuffer' = r.st.ring
        /\ currentSec' = r.st.cur
        /\ everSet' = (everSet \/ r.st.cur # 0)
        /\ seenEventIds' = r.st.seen
        /\ validated' = validated \cup r.passed
        /\ admitted' = admitted \cup SuccessIds(r.done)
        /\ last' = Outcome("ingest", IF r.status = 200 THEN "none"
                                     ELSE IF r.status = 400 THEN "BadRequest"
                                     ELSE "InternalError", "", 0, 0)
        /\ clock' = now
        /\ UNCHANGED <<refVars, answer>>

ringVars == <<ringBuffer, currentSec, seenEventIds, validated, admitted, everSet>>

\* store.updateReferenceTable(userMetadata, timestamp); delta is (update
\* second - stored second) when the timestamp parses
UpdateRef(userMetadata, timestamp) ==
    /\ userReferenceTableUpdateCount < MaxUpdates
    /\ \E r \in {updateReferenceTable(Ref, userMetadata, timestamp)} :
        /\ userReferenceTable' = r.ref.table
        /\ userReferenceTableTimestamp' = r.ref.ts
        /\ userReferenceTableUpdateCount' = r.ref.count
        /\ acceptedUpdates' = IF r.err = "none"
                               THEN Accepted(acceptedUpdates, userMetadata)
                               ELSE acceptedUpdates
        /\ last' = Outcome("update", r.err, "", 0,
                           IF parseTimestamp(timestamp).ok
                           THEN parseTimestamp(timestamp).sec - userReferenceTableTimestamp
                           ELSE 0)
    /\ UNCHANGED <<ringVars, answer, clock>>

\* PUT /reference/users
PutReference(body) ==
    /\ userReferenceTableUpdateCount < MaxUpdates
    /\ \E r \in {updateReference(Ref, body)} :
        /\ userReferenceTable' = r.ref.table
        /\ userReferenceTableTimestamp' = r.ref.ts
        /\ userReferenceTableUpdateCount' = r.ref.count
        /\ acceptedUpdates' = IF r.status = 200
                               THEN Accepted(acceptedUpdates, body.user_metadata)
                               ELSE acceptedUpdates
        /\ last' = Outcome("reference", r.err, "", 0,
                           IF r.status \in {200, 409} /\ parseTimestamp(body.ts).ok
                           THEN parseTimestamp(body.ts).sec - userReferenceTableTimestamp
                           ELSE 0)
    /\ UNCHANGED <<ringVars, answer, clock>>

\* store.getReferenceTable(): reads only
Read ==
    /\ last' = Outcome("read", "none", "", 0, 0)
    /\ UNCHANGED <<ringVars, refVars, answer, clock>>

\* GET /metrics?window=... with the server clock at now.  delta is 1 when
\* the response scanned the same events as the 200 response before it and
\* groups them differently
Metrics(window, now) ==
    \E r \in {getMetrics([ring |-> ringBuffer, cur |-> currentSec],
                          userReferenceTable, window, now)} :
    /\ ringBuffer' = r.st.ring
    /\ currentSec' = r.st.cur
    /\ everSet' = (everSet \/ r.st.cur # 0)
    /\ answer' = IF r.res.status = 200
                  THEN [asked |-> TRUE, scanned |-> r.res.scanned,
                        groupings |-> Groupings(r.res)]
                  ELSE answer
    /\ last' = Outcome("metrics", r.res.err, "", 0,
                       IF /\ r.res.status = 200 /\ answer.asked
                          /\ r.res.scanned # <<>>
                          /\ r.res.scanned = answer.scanned
                          /\ Groupings(r.res) # answer.groupings
                       THEN 1 ELSE 0)
    /\ clock' = now
    /\ UNCHANGED <<seenEventIds, validated, admitted, refVars>>

\* store.enrichEvent(event, userReferenceTable?): assigns nothing
Enrich(event, userReferenceTableArg) ==
    \E r \in {enrichEvent(event, TableSnapshot(userReferenceTableArg,
                                               userReferenceTable))} :
    /\ last' = Outcome("enrich", "none", event.user_id, 0,
                       IF r.hasMetadata THEN 1 ELSE 0)
    /\ UNCHANGED <<ringVars, refVars, answer, clock>>

\* the ring buffer operations of the store
NextRing ==
    \/ \E event \in GoodEvents \cup {Ev("e1", "u1", "click", BadTs)}, now \in Seconds :
          Insert(event, now)
    \/ \E target \in Seconds : Advance(target)
    \/ \E windowSec \in Windows, queryEndSec \in Seconds :
          Lookback(windowSec, queryEndSec)

\* inserts and advances alone
NextInsert ==
    \/ \E event \in GoodEvents, now \in Seconds : Insert(event, now)
    \/ \E target \in Seconds : Advance(target)

\* inserts, each moving the window by its reference second, and lookbacks
\* over windows the ring can hold
NextRetrieval ==
    \/ \E event \in GoodEvents, now \in Seconds : Insert(event, now)
    \/ \E windowSec \in 1 .. MAX_RETENTION_SEC, queryEndSec \in Seconds :
          Lookback(windowSec, queryEndSec)

\* inserts alone: the window advances only as an insert's reference
\* second moves it
NextPlacement ==
    \E event \in GoodEvents, now \in Seconds : Insert(event, now)

\* seconds before the epoch the pointer is taken to
PointerSeconds == (0 - 2) .. MaxSec

\* inserts of events of second 0 and later and advances, with reference
\* and target seconds that reach further before the epoch.  The array
\* properties of negative index the clearing loop adds are left out: no
\* operation here reads them
NextAdvance ==
    \/ \E event \in { e \in GoodEvents : SecOf(e) >= 0 }, now \in PointerSeconds :
          Insert(event, now)
    \/ \E target \in PointerSeconds : Advance(target)

\* admission: every Validate, between inserts and advances that put one
\* event into the ring and evict it
NextAdmission ==
    \/ \E event \in GoodEvents \cup BadEvents :
          \E now \in ValidateNows(event) : Validate(event, now)
    \/ \E event \in {e \in GoodEvents : e.event_id = "e1"} :
          StoredCount(ringBuffer) = 0 /\ Insert(event, SecOf(event))
    \/ \E target \in Seconds : Advance(target)

\* the ingestion endpoint, with advances of the window between requests;
\* the clock may step backwards between two requests
NextIngest ==
    \/ \E now \in ServerNows : \E body \in Bodies(now) : Ingest(body, now)
    \/ \E target \in ServerNows : Advance(target)

\* the reference table operations of the store and of its endpoint
NextRef ==
    \/ \E userMetadata \in MetadataInputs, timestamp \in RefTimestamps :
          UpdateRef(userMetadata, timestamp)
    \/ \E body \in RefBodies : PutReference(body)
    \/ Read

\* the three endpoints: events are ingested one per request, the table
\* is replaced, metrics are queried; the clock may step backwards
NextMetrics ==
    \/ \E now \in MetricNows : \E body \in MetricBodies(now) : Ingest(body, now)
    \/ \E userMetadata \in MetricTables : UpdateRef(userMetadata, IsoTs(1000))
    \/ \E window \in WindowParams, now \in MetricNows : Metrics(window, now)

\* enrichment calls on a store that ingests events and replaces its table
NextEnrich ==
    \/ \E now \in MetricNows : \E body \in MetricBodies(now) : Ingest(body, now)
    \/ \E userMetadata \in MetricTables : UpdateRef(userMetadata, IsoTs(1000))
    \/ \E event \in EnrichEvents, arg \in EnrichArgs : Enrich(event, arg)

\* the three endpoints under a server clock that never steps back
NextClock ==
    \/ \E now \in MetricNows : \E body \in MetricBodies(now) :
          now >= clock /\ Ingest(body, now)
    \/ \E userMetadata \in MetricTables : UpdateRef(userMetadata, IsoTs(1000))
    \/ \E window \in WindowParams, now \in MetricNows :
          now >= clock /\ Metrics(window, now)

Next ==
    \/ NextRing \/ NextInsert \/ NextRetrieval \/ NextPlacement \/ NextAdvance
    \/ NextAdmission \/ NextClock
    \/ NextIngest \/ NextRef \/ NextMetrics \/ NextEnrich

Spec == Init /\ [][Next]_vars
SpecRing == Init /\ [][NextRing]_vars
SpecAdmission == Init /\ [][NextAdmission]_vars
SpecIngest == Init /\ [][NextIngest]_vars
SpecRef == Init /\ [][NextRef]_vars
SpecMetrics == Init /\ [][NextMetrics]_vars
SpecEnrich == Init /\ [][NextEnrich]_vars
SpecInsert == Init /\ [][NextInsert]_vars
SpecRetrieval == Init /\ [][NextRetrieval]_vars
SpecPlacement == Init /\ [][NextPlacement]_vars
SpecAdvance == Init /\ [][NextAdvance]_vars
SpecClock == Init /\ [][NextClock]_vars

---------------------------------------------------------------------------
(* Shared vocabulary of the properties.                                    *)

WithinBounds(event, now) ==
    /\ SecOf(event) - now <= MAX_CLOCK_SKEW_SEC
    /\ now - SecOf(event) <= LATENESS_SEC

\* some returned bucket is tagged s and holds the event
Returned(ring, windowSec, queryEndSec, s, event) ==
    \E r \in {getLookbackWindow(ring, windowSec, queryEndSec)} :
    /\ r.err = "none"
    /\ \E k \in 1 .. Len(r.buckets) :
          /\ r.buckets[k].sec = s
          /\ \E j \in 1 .. Len(r.buckets[k].events) : r.buckets[k].events[j] = event

\* seconds the properties query: the inputs and one full window and a
\* second more on either side of them
QuerySeconds == (0 - MAX_RETENTION_SEC - 1) .. (MaxSec + MAX_RETENTION_SEC + 1)

\* every window of at most capacity seconds that covers second s, that is
\* every (w, q) with w <= capacity and q - w + 1 <= s <= q, returns the event
RetrievableEverywhere(ring, s, event) ==
    \A windowSec \in 1 .. MAX_RETENTION_SEC :
        \A queryEndSec \in s .. (s + windowSec - 1) :
            Returned(ring, windowSec, queryEndSec, s, event)

---------------------------------------------------------------------------
---------------------------------------------------------------------------
(* C2: once an event with identifier i has passed Validate, every later    *)
(* Validate of an event carrying i is rejected, whatever its other fields  *)
(* and whatever happened in between: every identifier that ever passed     *)
(* Validate is still in the duplicate set.                                 *)
C2_DuplicateRejectedForever ==
    /\ validated \subseteq seenEventIds
    /\ \A event \in GoodEvents \cup BadEvents, now \in Seconds :
          event.event_id \in validated =>
              validateEvent(seenEventIds, event, now).err # "none"

\* a Validate has just been rejected as a duplicate after the ring, which
\* held events, was emptied by an advance
C2_Witness ==
    /\ last.op = "validate" /\ last.err = "DuplicateEvent"
    /\ validated # {}
    /\ currentSec > 0 /\ StoredCount(ringBuffer) = 0

(* C3: a Validate call that rejects an event leaves the duplicate set      *)
(* unchanged, and afterwards a Validate of a well-formed event within the  *)
(* bounds whose identifier is not in the set succeeds.                     *)
C3_RejectionMarksNothing ==
    [][ (last'.op = "validate" /\ last'.err # "none") =>
          /\ seenEventIds' = seenEventIds
          /\ \A event \in GoodEvents :
                event.event_id \notin seenEventIds =>
                    \A now \in {n \in Seconds : WithinBounds(event, n)} :
                        validateEvent(seenEventIds', event, now).err = "none" ]_vars

\* an event has just been rejected for its time and its identifier is free
C3_Witness ==
    /\ last.op = "validate"
    /\ last.err \in {"ClockSkewExceeded", "LatenessExceeded", "InvalidTimestamp"}
    /\ seenEventIds # EventIds

(* C5: for a well-formed event with a parseable timestamp and a fresh      *)
(* identifier, Validate accepts iff -lateness <= second - now <= skew;     *)
(* beyond +skew it reports ClockSkewExceeded, beyond -lateness             *)
(* LatenessExceeded.                                                       *)
C5_TimeBounds ==
    \A event \in GoodEvents, now \in Seconds :
        event.event_id \notin seenEventIds =>
            LET d == SecOf(event) - now
                err == validateEvent(seenEventIds, event, now).err
            IN  /\ (err = "none") <=> (0 - LATENESS_SEC <= d /\ d <= MAX_CLOCK_SKEW_SEC)
                /\ d > MAX_CLOCK_SKEW_SEC => err = "ClockSkewExceeded"
                /\ d < 0 - LATENESS_SEC => err = "LatenessExceeded"

\* an event exactly skew seconds ahead of the reference second was accepted
C5_Witness ==
    /\ last.op = "validate" /\ last.err = "none"
    /\ last.delta = MAX_CLOCK_SKEW_SEC

---------------------------------------------------------------------------
C6_AsStated ==
    \A now \in ServerNows : \A items \in Batches(now) :
        LET r == ingestEvents(Store, [kind |-> "array", items |-> items], now)
            ok == { k \in 1 .. Len(items) :
                      k <= Len(r.results) /\ r.results[k].status = "success" }
            kept == SelectSeq([k \in 1 .. Len(items) |-> <<k, items[k]>>],
                              LAMBDA p : p[1] \in ok)
            alone == ingestEvents(Store,
                        [kind |-> "array",
                         items |-> [k \in 1 .. Len(kept) |-> kept[k][2]]], now)
        IN  /\ r.status = 200
            /\ Len(r.results) = Len(items)
            /\ \A k \in 1 .. Len(items) : r.results[k].event_id = OutcomeId(items[k])
            /\ alone.st = r.st
            /\ alone.results = SelectSeq(r.results, LAMBDA x : x.status = "success")

---------------------------------------------------------------------------
\* the events a lookback can return: <<second, event>> of every bucket that
\* some window of at most capacity seconds returns
Retrievable(ring) ==
    UNION { { <<ring[i].sec, ring[i].events[k]>> : k \in 1 .. Len(ring[i].events) } :
              i \in { j \in Slots : LookupSecond(ring, ring[j].sec) = <<ring[j]>> } }

(* C7 (as stated): an inserted event stays retrievable while it is within  *)
(* retention: whatever Insert or Advance is performed next, an event that  *)
(* a lookback returned before the step, at a second s with                 *)
(* pointer' - s < capacity after it, is still returned for s afterwards.   *)
C7_AsStated ==
    [][ \A x \in Retrievable(ringBuffer) :
          currentSec' - x[1] < MAX_RETENTION_SEC =>
              RetrievableEverywhere(ringBuffer', x[1], x[2]) ]_vars

(* C8 (as stated): with the pointer set at p, no LookbackWindow returns an *)
(* event whose second s satisfies s <= p - capacity.                       *)
C8_AsStated ==
    currentSec # 0 =>
        \A x \in Retrievable(ringBuffer) : x[1] > currentSec - MAX_RETENTION_SEC

---------------------------------------------------------------------------
(* C9: every bucket LookbackWindow returns carries the tag of the second   *)
(* it was looked up for and holds only events of that second; a slot       *)
(* tagged with another second contributes nothing, whatever it holds.      *)
C9_NoStaleBucket ==
    /\ \A sec \in QuerySeconds :
          LET index == JsRem(sec, MAX_RETENTION_SEC)
              found == LookupSecond(ringBuffer, sec)
          IN  /\ found # <<>> =>
                    /\ found[1].sec = sec
                    /\ \A j \in 1 .. Len(found[1].events) :
                          SecOf(found[1].events[j]) = sec
              /\ (index \in Slots /\ ringBuffer[index].sec # sec) => found = <<>>
    /\ \A windowSec \in Windows, queryEndSec \in QuerySeconds :
          LET b == getLookbackWindow(ringBuffer, windowSec, queryEndSec).buckets IN
          \A k \in 1 .. Len(b) :
              /\ queryEndSec - windowSec + 1 <= b[k].sec /\ b[k].sec <= queryEndSec
              /\ b[k] = ringBuffer[JsRem(b[k].sec, MAX_RETENTION_SEC)]
              /\ \A j \in 1 .. Len(b[k].events) : SecOf(b[k].events[j]) = b[k].sec

\* after a lookback: a slot holds events of second s, and a lookup of the
\* second one lap later, which maps to the same slot, finds nothing
C9_Witness ==
    /\ last.op = "lookback" /\ last.err = "none"
    /\ \E i \in Slots :
          /\ ringBuffer[i].events # <<>>
          /\ LookupSecond(ringBuffer, ringBuffer[i].sec) = <<ringBuffer[i]>>
          /\ JsRem(ringBuffer[i].sec + MAX_RETENTION_SEC, MAX_RETENTION_SEC) = i
          /\ getLookbackWindow(ringBuffer, 1,
                               ringBuffer[i].sec + MAX_RETENTION_SEC).buckets = <<>>

(* C10: LookbackWindow(w, q) with w <= capacity returns only buckets       *)
(* tagged within [q - w + 1, q], at most one per second and in strictly    *)
(* ascending order of tag; nothing of second q - w is returned.            *)
C10_WindowOrdered ==
    \A windowSec \in Windows, queryEndSec \in QuerySeconds :
        windowSec <= MAX_RETENTION_SEC =>
            LET r == getLookbackWindow(ringBuffer, windowSec, queryEndSec)
                b == r.buckets
            IN  /\ r.err = "none"
                /\ \A k \in 1 .. Len(b) :
                      /\ queryEndSec - windowSec + 1 <= b[k].sec
                      /\ b[k].sec <= queryEndSec
                      /\ k < Len(b) => b[k].sec < b[k + 1].sec
                      /\ \A j \in 1 .. Len(b[k].events) :
                            SecOf(b[k].events[j]) # queryEndSec - windowSec

\* after a lookback: two seconds hold events, a window over both returns
\* their buckets in ascending order, and the window that starts just after
\* the earlier second leaves it out
C10_Witness ==
    /\ last.op = "lookback" /\ last.err = "none"
    /\ \E i, j \in Slots :
          /\ ringBuffer[i].events # <<>> /\ ringBuffer[j].events # <<>>
          /\ ringBuffer[i].sec < ringBuffer[j].sec
          /\ getLookbackWindow(ringBuffer, MAX_RETENTION_SEC,
                               ringBuffer[j].sec).buckets
                = <<ringBuffer[i], ringBuffer[j]>>
          /\ getLookbackWindow(ringBuffer, ringBuffer[j].sec - ringBuffer[i].sec,
                               ringBuffer[j].sec).buckets
                = <<ringBuffer[j]>>

---------------------------------------------------------------------------
\* targets of an advance the properties try: the input seconds and up to
\* capacity + 2 seconds beyond them
AdvanceTargets == (0 - 1) .. (MaxSec + MAX_RETENTION_SEC + 2)

(* C11: in every store state LookbackWindow(w, q) fails with               *)
(* WindowTooLarge for every w > capacity and every q, and succeeds for     *)
(* w = capacity.                                                           *)
C11_WindowTooLarge ==
    \A windowSec \in 0 .. (MAX_RETENTION_SEC + 2), queryEndSec \in QuerySeconds :
        LET r == getLookbackWindow(ringBuffer, windowSec, queryEndSec) IN
        /\ windowSec > MAX_RETENTION_SEC =>
              (r.err = "WindowTooLarge" /\ r.buckets = <<>>)
        /\ windowSec = MAX_RETENTION_SEC => r.err = "none"

\* a lookback over a ring that holds events has just failed with
\* WindowTooLarge, and the window of exactly the capacity returns a bucket
C11_Witness ==
    /\ last.op = "lookback" /\ last.err = "WindowTooLarge"
    /\ \E i \in Slots :
          /\ ringBuffer[i].events # <<>>
          /\ getLookbackWindow(ringBuffer, MAX_RETENTION_SEC,
                               ringBuffer[i].sec).buckets # <<>>

---------------------------------------------------------------------------
\* table t holds exactly the entries of the record userMetadata
SameMapping(t, userMetadata) ==
    /\ DOMAIN t = DOMAIN userMetadata
    /\ \A u \in DOMAIN userMetadata : t[u] = userMetadata[u]

(* C15: in every reachable state, Update(map, ts) is accepted iff ts        *)
(* parses to a second >= the stored timestamp (a tie is accepted and       *)
(* overwrites); a rejected update (StaleUpdate, unparseable timestamp, or  *)
(* a request refused by the endpoint) returns the mapping, the stored      *)
(* timestamp and the version counter unchanged; an accepted one stores the *)
(* map, sets the stored timestamp to ts and adds exactly 1 to the counter, *)
(* so the stored timestamp never decreases: every accepted update moved it *)
(* by delta >= 0.                                                          *)
C15_LastWriteWins ==
    /\ \A userMetadata \in MetadataInputs, timestamp \in RefTimestamps :
          \A p \in {parseTimestamp(timestamp)},
             r \in {updateReferenceTable(Ref, userMetadata, timestamp)},
             c \in {updateReference(Ref, RefBody("object", userMetadata,
                                                 timestamp))} :
              /\ (r.err = "none") <=>
                    (p.ok /\ p.sec >= userReferenceTableTimestamp)
              /\ r.err # "none" =>
                    /\ r.ref = Ref
                    /\ r.err = IF p.ok THEN "StaleUpdate" ELSE "InvalidTimestamp"
              /\ r.err = "none" =>
                    /\ SameMapping(r.ref.table, userMetadata)
                    /\ r.ref.ts = p.sec
                    /\ r.ref.ts >= userReferenceTableTimestamp
                    /\ r.ref.count = userReferenceTableUpdateCount + 1
              /\ c.ref = r.ref
              /\ c.status = IF r.err = "none" THEN 200 ELSE 409
    /\ \A body \in RefBodies :
          (body.metaKind # "object" \/ body.ts.fmt = "empty") =>
              \A c \in {updateReference(Ref, body)} :
                  c.status = 400 /\ c.ref = Ref
    /\ (last.op \in {"update", "reference"} /\ last.err = "none") =>
          /\ last.delta >= 0
          /\ userReferenceTableUpdateCount >= 1

\* an update carrying the stored timestamp has just been accepted and has
\* replaced the mapping of the update before it
C15_Witness ==
    /\ last.op = "update" /\ last.err = "none" /\ last.delta = 0
    /\ userReferenceTableUpdateCount >= 2
    /\ userReferenceTableTimestamp # 0
    /\ acceptedUpdates[Len(acceptedUpdates)] # acceptedUpdates[Len(acceptedUpdates) - 1]
    /\ SameMapping(userReferenceTable, acceptedUpdates[Len(acceptedUpdates)])

(* C16: in every reachable state the mapping Read() returns is the empty   *)
(* mapping when no update has been accepted, and otherwise exactly the map *)
(* of the most recent accepted update: no user of an earlier update        *)
(* survives unless the latest update carries it, and every entry has the   *)
(* latest update's attributes.                                             *)
C16_ExactlyLatestUpdate ==
    LET t == getReferenceTable(userReferenceTable) IN
    /\ Len(acceptedUpdates) = Min(userReferenceTableUpdateCount, 2)
    /\ acceptedUpdates = <<>> => DOMAIN t = {}
    /\ acceptedUpdates # <<>> =>
          LET latest == acceptedUpdates[Len(acceptedUpdates)] IN
          /\ \A u \in UserIds : (u \in DOMAIN t) <=> (u \in DOMAIN latest)
          /\ \A u \in DOMAIN t : t[u] = latest[u]

\* the table has just been read after an update that dropped a user of the
\* update before it and changed the attributes of a user it kept
C16_Witness ==
    /\ last.op = "read"
    /\ Len(acceptedUpdates) >= 2
    /\ LET latest == acceptedUpdates[Len(acceptedUpdates)]
           before == acceptedUpdates[Len(acceptedUpdates) - 1]
       IN  /\ \E u \in DOMAIN before : u \notin DOMAIN latest
                                        /\ u \notin DOMAIN userReferenceTable
           /\ \E u \in DOMAIN before \cap DOMAIN latest :
                  /\ before[u] # latest[u]
                  /\ userReferenceTable[u] = latest[u]

(* C17 (as stated): on a fresh store the first Update succeeds for every   *)
(* parseable timestamp, also one that parses to a second at or below 0.    *)
C17_AsStated ==
    (userReferenceTableUpdateCount = 0 /\ acceptedUpdates = <<>>) =>
        \A userMetadata \in MetadataInputs, timestamp \in RefTimestamps :
            parseTimestamp(timestamp).ok =>
                updateReferenceTable(Ref, userMetadata, timestamp).err = "none"

---------------------------------------------------------------------------
\* the events held in live buckets of ring for the seconds of the window
LiveEvents(ring, windowSec, now) ==
    Flatten(getLookbackWindow(ring, windowSec, now).buckets)

\* the store as getMetrics takes it
RingStore == [ring |-> ringBuffer, cur |-> currentSec]

(* C18 (as stated): a metrics query with window w at time now that answers *)
(* 200 reports a total equal to the number of events the store holds in    *)
(* live buckets for the seconds now - w + 1 .. now when the query arrives, *)
(* and events_per_sec * w is that number.                                  *)
C18_AsStated ==
    \A windowSec \in 1 .. MAX_RETENTION_SEC, now \in MetricNows :
        \A r \in {getMetrics(RingStore, userReferenceTable,
                             WindowParam("number", windowSec), now)} :
            r.res.status = 200 =>
                r.res.events_per_sec.num * windowSec
                    = Len(LiveEvents(ringBuffer, windowSec, now))
                          * r.res.events_per_sec.den

\* positions of the scanned events whose user is in the table
Known(scanned, table) ==
    { k \in 1 .. Len(scanned) : scanned[k].user_id \in DOMAIN table }

(* C19: in every metrics result, unique_users is the number of distinct    *)
(* user identifiers among the scanned events whose user is in the table    *)
(* snapshot, and unknown is the number of distinct event identifiers among *)
(* the scanned events whose user is absent from it; the scanned events are *)
(* those of the buckets the lookback returns after the query's advance.    *)
C19_DistinctCounts ==
    \A window \in WindowParams, now \in MetricNows :
        \A r \in {getMetrics(RingStore, userReferenceTable, window, now)} :
            r.res.status = 200 =>
                LET scanned == LiveEvents(r.st.ring, r.res.window_sec, now)
                    known == Known(scanned, userReferenceTable)
                IN  /\ r.res.scanned = scanned
                    /\ r.res.unique_users =
                          Cardinality({ scanned[k].user_id : k \in known })
                    /\ r.res.unknown =
                          Cardinality({ scanned[k].event_id :
                                          k \in (1 .. Len(scanned)) \ known })

\* a query has just scanned two events of one user who is not in the
\* table and counted both as unknown, with a table that holds another user
C19_Witness ==
    /\ last.op = "metrics" /\ last.err = "none"
    /\ answer.asked /\ Len(answer.scanned) = 2
    /\ answer.scanned[1].user_id = answer.scanned[2].user_id
    /\ answer.scanned[1].user_id \notin DOMAIN userReferenceTable
    /\ userReferenceTable # EmptyTable
    /\ answer.groupings[3] = 0 /\ answer.groupings[4] = 2

(* C20: a metrics query groups the scanned events by the reference table   *)
(* the store holds when the query is made, whenever the events were        *)
(* ingested: by_plan and by_region count the scanned events by the plan    *)
(* and region that table gives their user, unknown those whose user it     *)
(* lacks.                                                                  *)
C20_EnrichedAtQueryTime ==
    \A window \in WindowParams, now \in MetricNows :
        \A r \in {getMetrics(RingStore, userReferenceTable, window, now)} :
            r.res.status = 200 =>
                LET scanned == r.res.scanned
                    known == Known(scanned, userReferenceTable)
                IN  /\ \A plan \in Plans :
                          r.res.by_plan[plan] = Cardinality(
                              { k \in known :
                                  userReferenceTable[scanned[k].user_id].plan = plan })
                    /\ \A region \in Regions :
                          r.res.by_region[region] = Cardinality(
                              { k \in known :
                                  userReferenceTable[scanned[k].user_id].region = region })
                    /\ r.res.unknown = Len(scanned) - Cardinality(known)

\* a query has just grouped the events it scanned differently from the
\* query before it, which scanned the same events: an update was accepted
\* between the two
C20_Witness ==
    /\ last.op = "metrics" /\ last.err = "none" /\ last.delta = 1
    /\ userReferenceTableUpdateCount >= 1
    /\ answer.scanned # <<>>

---------------------------------------------------------------------------
\* the event is held by a bucket of ring that carries the tag of its second
HeldLive(ring, event) ==
    \E i \in Slots :
        /\ ring[i].sec = SecOf(event)
        /\ \E j \in 1 .. Len(ring[i].events) : ring[i].events[j] = event

\* the sum of the counters of a by_plan or by_region record
RECURSIVE SumOver(_, _)
SumOver(counts, keys) ==
    IF keys = {} THEN 0
    ELSE LET k == CHOOSE x \in keys : TRUE
         IN  counts[k] + SumOver(counts, keys \ {k})

(* C21: a metrics query with window w at time now that answers 200 counts  *)
(* only events whose second lies in [now - w + 1, now] and which the store  *)
(* holds, before and after the query's advance, in a bucket tagged with     *)
(* that second; every figure of the response is taken from these events     *)
(* alone: the total behind events_per_sec is their number, by_plan and      *)
(* by_region each sum to the number of them whose user is known,            *)
(* unique_users and unknown do not exceed the known and the remaining ones. *)
C21_OnlyWindowCounted ==
    \A window \in WindowParams, now \in MetricNows :
        \A r \in {getMetrics(RingStore, userReferenceTable, window, now)} :
            r.res.status = 200 =>
                LET scanned == r.res.scanned
                    w == r.res.window_sec
                    known == Cardinality(Known(scanned, userReferenceTable))
                IN  /\ \A k \in 1 .. Len(scanned) :
                          /\ now - w + 1 <= SecOf(scanned[k])
                          /\ SecOf(scanned[k]) <= now
                          /\ HeldLive(ringBuffer, scanned[k])
                          /\ HeldLive(r.st.ring, scanned[k])
                    /\ r.res.events_per_sec.num = Len(scanned)
                    /\ SumOver(r.res.by_plan, Plans) = known
                    /\ SumOver(r.res.by_region, Regions) = known
                    /\ r.res.unique_users <= known
                    /\ r.res.unknown <= Len(scanned) - known

\* a query has just counted exactly one event, of the second the pointer
\* is at, while the store also holds an event stamped after that second
C21_Witness ==
    /\ last.op = "metrics" /\ last.err = "none"
    /\ Len(answer.scanned) = 1
    /\ SecOf(answer.scanned[1]) = currentSec
    /\ \E i \in Slots :
          /\ ringBuffer[i].sec > currentSec
          /\ ringBuffer[i].events # <<>>

---------------------------------------------------------------------------
\* what enrichEvent returns for a snapshot passed as argument, whatever
\* table the store holds: the event itself, with the snapshot's plan and
\* region of its user when the snapshot has that user, bare otherwise
EnrichResult ==
    \A event \in EnrichEvents, snapshot \in EnrichTables :
        \A r \in {enrichEvent(event, TableSnapshot(TableArg(TRUE, snapshot),
                                                   userReferenceTable))} :
            /\ r.event = event
            /\ event.user_id \in DOMAIN snapshot =>
                  /\ r.hasMetadata
                  /\ r.plan = snapshot[event.user_id].plan
                  /\ r.region = snapshot[event.user_id].region
            /\ event.user_id \notin DOMAIN snapshot =>
                  /\ ~r.hasMetadata
                  /\ r.plan = "" /\ r.region = ""

(* C22: enrich(event, snapshot) returns the event with the snapshot's plan *)
(* and region of its user attached when the user is in the snapshot, and   *)
(* the event with no attributes otherwise; the result depends on (event,   *)
(* snapshot) only, not on the table or the events the store holds; and an  *)
(* enrich call changes neither the ring buffer, the pointer, the duplicate *)
(* set nor the reference table.                                            *)
C22_EnrichIsPure ==
    /\ []EnrichResult
    /\ [][ last'.op = "enrich" =>
              UNCHANGED <<ringBuffer, currentSec, seenEventIds, userReferenceTable,
                          userReferenceTableTimestamp,
                          userReferenceTableUpdateCount>> ]_vars

\* an event has just been enriched with attributes of its user although
\* the table of the store, which is not empty, lacks that user, on a store
\* that holds events
C22_Witness ==
    /\ last.op = "enrich" /\ last.delta = 1
    /\ last.id \notin DOMAIN userReferenceTable
    /\ userReferenceTable # EmptyTable
    /\ StoredCount(ringBuffer) > 0
    /\ seenEventIds # {}

---------------------------------------------------------------------------
\* the pointer was never set and every slot is as the constructor made it:
\* no event has been inserted into this store
NeverInserted ==
    /\ ~everSet
    /\ \A i \in Slots : ringBuffer[i] = EmptyBucket

(* C23 (as stated): on a store into which no event has ever been inserted, *)
(* LookbackWindow(w, q) returns an empty sequence for every w <= capacity  *)
(* and every query end second q >= 0, including windows that cover epoch   *)
(* second 0.                                                               *)
C23_AsStated ==
    NeverInserted =>
        \A windowSec \in 1 .. MAX_RETENTION_SEC :
            \A queryEndSec \in { q \in QuerySeconds : q >= 0 } :
                \A r \in {getLookbackWindow(ringBuffer, windowSec, queryEndSec)} :
                    r.err = "none" /\ r.buckets = <<>>

---------------------------------------------------------------------------
C25_InitialisedToEventSecond ==
    currentSec = 0 =>
        \A event \in GoodEvents, now \in Seconds :
            \A r \in {updateRingBuffer(ringBuffer, currentSec, event, now)} :
                r.cur = IF now > SecOf(event) THEN now ELSE SecOf(event)

\* an insert on an unset pointer has just placed an event stamped after
\* its reference second, and the pointer is at the event's second
C25_Witness ==
    /\ last.op = "insert" /\ last.err = "none"
    /\ last.from = 0
    /\ last.delta > 0
    /\ currentSec = last.sec

\* the pointer Insert compares referenceNow with: the one it found, or
\* the event's second when it found the pointer unset
PointerCompared(cur, event) == IF cur = 0 THEN SecOf(event) ELSE cur

\* the slot of a second
SlotOf(sec) == JsRem(sec, MAX_RETENTION_SEC)

---------------------------------------------------------------------------
\* the ring as the placement step of Insert finds it: after the advance
\* to referenceNow when Insert makes one
BeforePlacement(ring, cur, event, now) ==
    IF now > PointerCompared(cur, event)
    THEN advanceSlidingWindow(ring, PointerCompared(cur, event), now).ring
    ELSE ring

(* C27: when an accepted Insert targets a slot whose tag differs from the  *)
(* event's second, the slot's previous tag and events are discarded and    *)
(* the slot afterwards holds tag = event second and exactly the one new    *)
(* event; when the tag already equals the event's second the existing      *)
(* events are kept and the new one is added; no other slot changes in the  *)
(* placement step.                                                         *)
C27_PlacementResetsStale ==
    \A event \in GoodEvents, now \in Seconds :
        \A r \in {updateRingBuffer(ringBuffer, currentSec, event, now)},
           pre \in {BeforePlacement(ringBuffer, currentSec, event, now)},
           index \in {SlotOf(SecOf(event))} :
            r.err = "none" =>
                /\ index \in Slots
                /\ r.ring[index].sec = SecOf(event)
                /\ pre[index].sec # SecOf(event) =>
                      r.ring[index].events = <<event>>
                /\ pre[index].sec = SecOf(event) =>
                      /\ Len(r.ring[index].events) = Len(pre[index].events) + 1
                      /\ \A k \in 1 .. Len(pre[index].events) :
                            r.ring[index].events[k] = pre[index].events[k]
                      /\ r.ring[index].events[Len(pre[index].events) + 1] = event
                /\ \A i \in Slots \ {index} : r.ring[i] = pre[i]

\* a store on which an accepted Insert, making no advance, finds events of
\* another second in the slot of its event and leaves the slot with the
\* new tag and the new event alone
C27_Witness ==
    \E event \in GoodEvents, now \in Seconds :
        \E r \in {updateRingBuffer(ringBuffer, currentSec, event, now)},
           index \in {SlotOf(SecOf(event))} :
            /\ r.err = "none"
            /\ r.cur = currentSec /\ currentSec # 0
            /\ ringBuffer[index].events # <<>>
            /\ ringBuffer[index].sec # SecOf(event)
            /\ r.ring[index] = [sec |-> SecOf(event), events |-> <<event>>]

(* C28: within one bucket the events appear in the order of their Insert   *)
(* calls: an accepted Insert of b into a bucket that is live for b's       *)
(* second puts b after every event a the bucket holds, keeps the order of  *)
(* those, and LookbackWindow returns the bucket in that order; the times   *)
(* within the second play no part.                                         *)
C28_ArrivalOrder ==
    \A event \in GoodEvents, now \in Seconds :
        \A r \in {updateRingBuffer(ringBuffer, currentSec, event, now)},
           pre \in {BeforePlacement(ringBuffer, currentSec, event, now)},
           index \in {SlotOf(SecOf(event))} :
            (r.err = "none" /\ pre[index].sec = SecOf(event)) =>
                \A got \in {getLookbackWindow(r.ring, 1, SecOf(event))} :
                    /\ got.err = "none"
                    /\ Len(got.buckets) = 1
                    /\ got.buckets[1].events = pre[index].events \o <<event>>

\* an insert has just put an event behind one of the same second that
\* arrived first and carries a later time within the second, and a
\* lookback returns the two in arrival order
C28_Witness ==
    /\ last.op = "insert" /\ last.err = "none"
    /\ \E got \in {getLookbackWindow(ringBuffer, 1, last.sec)} :
          /\ Len(got.buckets) = 1
          /\ Len(got.buckets[1].events) = 2
          /\ got.buckets[1].events[2].event_id = last.id
          /\ got.buckets[1].events[1].event_id # last.id
          /\ got.buckets[1].events[1].ts.ms > got.buckets[1].events[2].ts.ms

---------------------------------------------------------------------------
(* C29 (as stated): Advance(target) from a set pointer p with              *)
(* target - p >= capacity leaves every slot of the ring buffer reset (no   *)
(* bucket holds any event), and the number of slot resets performed by a   *)
(* single Advance is at most capacity + 1 however far the pointer jumps.   *)
C29_AsStated ==
    currentSec # 0 =>
        \A target \in { t \in AdvanceTargets : t > currentSec } :
            \A r \in {advanceSlidingWindow(ringBuffer, currentSec, target)} :
                /\ r.err = "none"
                /\ Cardinality(ClearRange(currentSec, target)) <= MAX_RETENTION_SEC + 1
                /\ target - currentSec >= MAX_RETENTION_SEC =>
                      \A i \in Slots : r.ring[i] = EmptyBucket

---------------------------------------------------------------------------
\* the event is not a record with its four fields present and non-empty
Malformed(event) ==
    \/ event.kind # "object"
    \/ "" \in {event.event_id, event.user_id, event.type}
    \/ event.ts = EmptyTs

(* C30: Validate reports the first failing check in the order malformed,   *)
(* duplicate, invalid timestamp, skew, lateness: a malformed event is      *)
(* rejected as malformed even if its identifier is in the duplicate set,   *)
(* and an event whose identifier is in the duplicate set is rejected as    *)
(* duplicate even if its timestamp is unparseable or out of bounds.        *)
C30_FirstFailingCheck ==
    \A event \in GoodEvents \cup BadEvents, now \in Seconds :
        \A r \in {validateEvent(seenEventIds, event, now)} :
            r.err = IF Malformed(event) THEN "MalformedEvent"
                    ELSE IF event.event_id \in seenEventIds THEN "DuplicateEvent"
                    ELSE IF event.ts.fmt # "iso" THEN "InvalidTimestamp"
                    ELSE IF SecOf(event) - now > MAX_CLOCK_SKEW_SEC
                    THEN "ClockSkewExceeded"
                    ELSE IF now - SecOf(event) > LATENESS_SEC
                    THEN "LatenessExceeded"
                    ELSE "none"

\* an event stamped beyond the skew bound has just been rejected as a
\* duplicate, and the store rejects as malformed an event that lacks a
\* field and carries an identifier of the duplicate set, and as duplicate
\* one whose timestamp does not parse
C30_Witness ==
    /\ last.op = "validate" /\ last.err = "DuplicateEvent"
    /\ last.delta > MAX_CLOCK_SKEW_SEC
    /\ \E event \in BadEvents :
          /\ isObject(event) /\ event.event_id \in seenEventIds
          /\ event.user_id = ""
          /\ validateEvent(seenEventIds, event, 1).err = "MalformedEvent"
    /\ \E event \in BadEvents :
          /\ event.event_id \in seenEventIds /\ event.ts = BadTs
          /\ validateEvent(seenEventIds, event, 1).err = "DuplicateEvent"

---------------------------------------------------------------------------
\* the windows a metrics query may ask for: 0 < window <= capacity
ValidWindows ==
    { w \in WindowParams : ~parseWindow(w).nan /\ parseWindow(w).n > 0
                           /\ ~WindowTooLarge(parseWindow(w).n) }

(* C31 (as stated): when the reference times of the Ingest, Update and     *)
(* metrics operations never decrease, every metrics query with             *)
(* 0 < window <= capacity succeeds, never failing with BackwardAdvance,    *)
(* also when the only events ingested so far are stamped ahead of the      *)
(* reference time within the skew bound; after a successful query at now   *)
(* the pointer equals now.                                                 *)
C31_AsStated ==
    \A window \in ValidWindows, now \in { n \in MetricNows : n >= clock } :
        \A r \in {getMetrics([ring |-> ringBuffer, cur |-> currentSec],
                              userReferenceTable, window, now)} :
            /\ r.res.err # "BackwardAdvance"
            /\ r.res.status = 200
            /\ r.st.cur = now

---------------------------------------------------------------------------
(* C32 (as stated): an accepted Insert destroys no data that is still      *)
(* within retention: a bucket that before the Insert holds events of a     *)
(* second t other than the event's, with pointer - capacity < t <=         *)
(* pointer for the pointer after the Insert's advance step, holds the      *)
(* same events after the Insert; this for every accepted event second,     *)
(* also one ahead of the pointer or exactly capacity away from it.         *)
C32_AsStated ==
    \A event \in GoodEvents, now \in Seconds :
        \A r \in {updateRingBuffer(ringBuffer, currentSec, event, now)} :
            r.err = "none" =>
                \A i \in Slots :
                    ( /\ ringBuffer[i].events # <<>>
                      /\ ringBuffer[i].sec # SecOf(event)
                      /\ r.cur - MAX_RETENTION_SEC < ringBuffer[i].sec
                      /\ ringBuffer[i].sec <= r.cur )
                    => r.ring[i] = ringBuffer[i]

---------------------------------------------------------------------------
(* C33: in every reachable state, every slot i that holds at least one     *)
(* event has a tag s with s mod capacity = i, and every event in the slot  *)
(* has occurrence second s.                                                *)
C33_SlotMatchesTag ==
    \A i \in Slots :
        ringBuffer[i].events # <<>> =>
            /\ ringBuffer[i].sec % MAX_RETENTION_SEC = i
            /\ \A k \in 1 .. Len(ringBuffer[i].events) :
                  SecOf(ringBuffer[i].events[k]) = ringBuffer[i].sec

\* an insert has just put an event of a second at or beyond capacity into
\* a slot while another slot holds an event of a second below capacity
C33_Witness ==
    /\ last.op = "insert" /\ last.err = "none"
    /\ last.sec >= MAX_RETENTION_SEC
    /\ \E k \in 1 .. Len(ringBuffer[last.sec % MAX_RETENTION_SEC].events) :
          ringBuffer[last.sec % MAX_RETENTION_SEC].events[k].event_id = last.id
    /\ \E i \in Slots \ {last.sec % MAX_RETENTION_SEC} :
          /\ ringBuffer[i].events # <<>>
          /\ ringBuffer[i].sec < MAX_RETENTION_SEC

---------------------------------------------------------------------------
\* the identifiers of the events the ring holds
StoredIds(ring) ==
    UNION { { ring[i].events[k].event_id : k \in 1 .. Len(ring[i].events) } :
              i \in Slots }

(* C34: when the ring is filled only through Ingest, the identifiers of    *)
(* the stored events are pairwise distinct, and every metrics result has   *)
(* by_plan.free + by_plan.pro = by_region.us + by_region.eu and            *)
(* by_plan.free + by_plan.pro + unknown = the number of scanned events,    *)
(* which is events_per_sec * window.                                       *)
C34_CountsAddUp ==
    /\ Cardinality(StoredIds(ringBuffer)) = StoredCount(ringBuffer)
    /\ \A window \in WindowParams, now \in MetricNows :
          \A r \in {getMetrics(RingStore, userReferenceTable, window, now)} :
              r.res.status = 200 =>
                  /\ SumOver(r.res.by_plan, Plans) = SumOver(r.res.by_region, Regions)
                  /\ SumOver(r.res.by_plan, Plans) + r.res.unknown = Len(r.res.scanned)
                  /\ r.res.events_per_sec.num * r.res.window_sec
                        = Len(r.res.scanned) * r.res.events_per_sec.den

\* a query has just scanned two events of one user, both ingested, and
\* found the user of neither in the table
C34_Witness ==
    /\ last.op = "metrics" /\ last.err = "none"
    /\ Len(answer.scanned) = 2
    /\ answer.scanned[1].user_id = answer.scanned[2].user_id
    /\ {answer.scanned[1].event_id, answer.scanned[2].event_id} \subseteq admitted
    /\ answer.groupings[4] = 2

---------------------------------------------------------------------------
(* C35 (as stated): a metrics query that fails because the requested       *)
(* window exceeds capacity (WindowTooLarge) leaves the store unchanged:    *)
(* the pointer and every bucket are the same after the failed query as     *)
(* before it.                                                              *)
C35_AsStated ==
    \A window \in WindowParams, now \in MetricNows :
        \A r \in {getMetrics(RingStore, userReferenceTable, window, now)} :
            r.res.err = "WindowTooLarge" =>
                /\ r.st.cur = currentSec
                /\ r.st.ring = ringBuffer

====
